---- MODULE Spec2Model ----
(***************************************************************************)
(* A model of src/nodes.cpp of templet: the path resolver (parse_tag and   *)
(* its helpers), the node hierarchy (Text, Value, IfValue, ElifValue,      *)
(* ElseValue, ForValue) and the tag parsers.                               *)
(*                                                                         *)
(* A std::string is a sequence of one-character strings.  A DataMap        *)
(* (std::map<std::string, DataPtr>) is a sequence of entries [k, v] with   *)
(* pairwise different keys.  A Data value is a record with its type() and  *)
(* the payload of each accessor.  A function that can throw returns a      *)
(* record whose err field is "none" or the name of the exception.          *)
(***************************************************************************)
EXTENDS Integers, Sequences, FiniteSets, TLC

VARIABLES
    wsSentry,   \* the build: TRUE iff the library's std::ws constructs a sentry
    tree,       \* the root node evaluate is called on
    kv,         \* the DataMap the caller passes to evaluate
    stack,      \* the active evaluate calls, outermost first
    out,        \* the characters written to the std::ostream
    status,     \* "idle", "running", "done" or "failed"
    err,        \* the exception that left evaluate, or "none"
    in,         \* the arguments of a call of a free function or a constructor
    res         \* what that call returned or threw

vars == <<wsSentry, tree, kv, stack, out, status, err, in, res>>

(***************************************************************************)
(* Bounds of the model.                                                    *)
(***************************************************************************)
MaxSegs == 2        \* segments of a generated path
MaxIdx == 2         \* largest array index written in a generated path
MaxListLen == 2     \* elements of a generated list of strings
MaxElifs == 2       \* Elif children of a generated If node

(***************************************************************************)
(* std::string                                                             *)
(***************************************************************************)
Whitespace == {" "}

DigitChars == <<"0", "1", "2", "3", "4", "5", "6", "7", "8", "9">>

DigitSet == {DigitChars[i] : i \in 1..10}

DigitVal(c) == (CHOOSE i \in 1..10 : DigitChars[i] = c) - 1

LowerChars == {"a", "b", "c", "d", "e", "f", "g", "h", "i", "j", "k", "l", "m",
               "n", "o", "p", "q", "r", "s", "t", "u", "v", "w", "x", "y", "z"}

UpperChars == {"A", "B", "C", "D", "E", "F", "G", "H", "I", "J", "K", "L", "M",
               "N", "O", "P", "Q", "R", "S", "T", "U", "V", "W", "X", "Y", "Z"}

\* s.find(c): the first position of c in s (from 1), 0 for npos
Find(s, c) ==
    LET hits == {i \in 1..Len(s) : s[i] = c}
    IN  IF hits = {} THEN 0 ELSE CHOOSE i \in hits : \A j \in hits : i <= j

\* s.find(".."): whether s holds two consecutive dots
HasMultiDot(s) == \E i \in 1..(Len(s) - 1) : s[i] = "." /\ s[i + 1] = "."

\* the suffix of s from position p (from 1) on; the whole of s.erase(0, p - 1)
From(s, p) == SubSeq(s, p, Len(s))

StartsWith(s, pre) == Len(s) >= Len(pre) /\ SubSeq(s, 1, Len(pre)) = pre

EndsWith(s, suf) ==
    Len(s) >= Len(suf) /\ SubSeq(s, Len(s) - Len(suf) + 1, Len(s)) = suf

\* the first position >= i of s that holds no whitespace, Len(s) + 1 if none
SkipWs(s, i) ==
    CHOOSE j \in i..(Len(s) + 1) :
        /\ j = Len(s) + 1 \/ s[j] \notin Whitespace
        /\ \A k \in i..(j - 1) : s[k] \in Whitespace

\* the first position >= i of s that holds no digit, Len(s) + 1 if none
SkipDigits(s, i) ==
    CHOOSE j \in i..(Len(s) + 1) :
        /\ j = Len(s) + 1 \/ s[j] \notin DigitSet
        /\ \A k \in i..(j - 1) : s[k] \in DigitSet

LTrim(s) == From(s, SkipWs(s, 1))

RECURSIVE RTrim(_)
RTrim(s) ==
    IF s # <<>> /\ s[Len(s)] \in Whitespace THEN RTrim(SubSeq(s, 1, Len(s) - 1))
    ELSE s

Trim(s) == LTrim(RTrim(s))

\* mylib::split(s, c): the pieces of s between the occurrences of c
RECURSIVE Split(_, _)
Split(s, c) ==
    LET p == Find(s, c)
    IN  IF p = 0 THEN <<s>>
        ELSE <<SubSeq(s, 1, p - 1)>> \o Split(From(s, p + 1), c)

(***************************************************************************)
(* templet::types::Data                                                    *)
(***************************************************************************)
VString(s) == [type |-> "String", value |-> s, list |-> <<>>, map |-> <<>>]

VList(l) == [type |-> "List", value |-> <<>>, list |-> l, map |-> <<>>]

VMap(m) == [type |-> "Mapper", value |-> <<>>, list |-> <<>>, map |-> m]

NoData == [type |-> "None", value |-> <<>>, list |-> <<>>, map |-> <<>>]

Entry(k, v) == [k |-> k, v |-> v]

\* map.count(k)
MapCount(m, k) == \E i \in 1..Len(m) : m[i].k = k

\* map.at(k), for a key the map holds
MapAt(m, k) == m[CHOOSE i \in 1..Len(m) : m[i].k = k].v

MapKeys(m) == {m[i].k : i \in 1..Len(m)}

(***************************************************************************)
(* The path resolver                                                       *)
(***************************************************************************)
IntMax == 2147483647

\* the value of the digits s[i..j-1], or -1 when it exceeds an int
RECURSIVE NatVal(_, _, _)
NatVal(s, i, j) ==
    IF j <= i THEN 0
    ELSE LET hi == NatVal(s, i, j - 1)
             d == DigitVal(s[j - 1])
         IN  IF hi < 0 \/ hi > (IntMax - d) \div 10 THEN -1 ELSE hi * 10 + d

\* the rest of parse_number once operator>> has read the digits text[d..e-1]:
\* no digit or an overflow sets failbit; reading up to the end of the text
\* sets eofbit, and then std::ws sets failbit where it constructs a sentry;
\* anything but whitespace left makes peek() differ from EOF
NumberRead(text, negative, d, e) ==
    IF e = d \/ NatVal(text, d, e) < 0 THEN [ok |-> FALSE, n |-> 0]
    ELSE IF wsSentry /\ e = Len(text) + 1 THEN [ok |-> FALSE, n |-> 0]
    ELSE IF SkipWs(text, e) # Len(text) + 1 THEN [ok |-> FALSE, n |-> 0]
    ELSE [ok |-> TRUE,
          n |-> IF negative THEN 0 - NatVal(text, d, e) ELSE NatVal(text, d, e)]

\* operator>>(int&) at position b, after the leading whitespace: a sign, digits
NumberAt(text, b) ==
    IF b <= Len(text) /\ text[b] \in {"+", "-"}
    THEN NumberRead(text, text[b] = "-", b + 1, SkipDigits(text, b + 1))
    ELSE NumberRead(text, FALSE, b, SkipDigits(text, b))

\* parser >> result >> std::ws && parser.peek() == EOF
ParseNumber(text) == NumberAt(text, SkipWs(text, 1))

IndexParsed(num) ==
    IF ~num.ok THEN [err |-> "InvalidTag", idx |-> 0]
    ELSE [err |-> "none", idx |-> num.n]

ParseArrayIndex(s) ==
    IF ~StartsWith(s, <<"[">>) \/ ~EndsWith(s, <<"]">>)
    THEN [err |-> "InvalidTag", idx |-> 0]
    ELSE IndexParsed(ParseNumber(SubSeq(s, 2, Len(s) - 1)))

\* NameIndexed without the check of the sign
NameIndexedUnchecked(s, arr_pos, a) ==
    IF a.err # "none" THEN [err |-> a.err, name |-> <<>>, idx |-> 0]
    ELSE [err |-> "none", name |-> SubSeq(s, 1, arr_pos - 1), idx |-> a.idx]

\* parse_tag_name from the call of parse_array_index on
NameIndexed(s, arr_pos, a) ==
    IF a.err # "none" THEN [err |-> a.err, name |-> <<>>, idx |-> 0]
    ELSE IF a.idx < 0 THEN [err |-> "InvalidTag", name |-> <<>>, idx |-> 0]
    ELSE [err |-> "none", name |-> SubSeq(s, 1, arr_pos - 1), idx |-> a.idx]

NameAt(s, arr_pos) ==
    IF arr_pos = 0 THEN [err |-> "none", name |-> s, idx |-> -1]
    ELSE NameIndexed(s, arr_pos, ParseArrayIndex(From(s, arr_pos)))

ParseTagName(s) == NameAt(s, Find(s, "["))

Thrown(e) == [err |-> e, val |-> NoData]

Returned(v) == [err |-> "none", val |-> v]

\* idx >= data.size(): the int is converted to size_t, so a negative idx
\* (-1, no index written) is at least every size
IdxGeSize(idx, size) == idx < 0 \/ idx >= size

\* the last segment: the value the name holds, or the item of its list
LastTag(found, idx) ==
    IF idx < 0 THEN Returned(found)
    ELSE IF found.type = "List"
    THEN IF IdxGeSize(idx, Len(found.list)) THEN Thrown("InvalidTag")
         ELSE Returned(found.list[idx + 1])
    ELSE Thrown("InvalidTag")

\* a segment before the last: the map that mapRef is set to
InnerTag(found, idx) ==
    IF found.type = "Mapper" THEN Returned(found)
    ELSE IF found.type = "List"
    THEN IF IdxGeSize(idx, Len(found.list)) THEN Thrown("InvalidTag")
         ELSE LET listObj == found.list[idx + 1]
              IN  IF listObj.type # "Mapper" THEN Thrown("InvalidTag")
                  ELSE Returned(listObj)
    ELSE Thrown("InvalidTag")

RECURSIVE ParseTag(_, _)

\* one turn of the while(true) loop of parse_tag from map.count on, rest
\* being the name left after the erase
TagFound(parsedName, rest, map) ==
    IF parsedName.err # "none" THEN Thrown(parsedName.err)
    ELSE IF ~MapCount(map, parsedName.name) THEN Thrown("MissingTag")
    ELSE IF rest = <<>>
    THEN LastTag(MapAt(map, parsedName.name), parsedName.idx)
    ELSE IF InnerTag(MapAt(map, parsedName.name), parsedName.idx).err # "none"
    THEN InnerTag(MapAt(map, parsedName.name), parsedName.idx)
    ELSE ParseTag(rest,
                  InnerTag(MapAt(map, parsedName.name), parsedName.idx).val.map)

TagAt(name, map, pos) ==
    IF pos = 0 THEN TagFound(ParseTagName(name), <<>>, map)
    ELSE TagFound(ParseTagName(SubSeq(name, 1, pos - 1)), From(name, pos + 1),
                  map)

\* parse_tag, map being mapRef.get()
ParseTag(name, map) == TagAt(name, map, Find(name, "."))

TypedAs(r, type) ==
    IF r.err # "none" THEN r
    ELSE IF r.val.type # type THEN Thrown("InvalidTag")
    ELSE r

ParseTagString(name, map) == TypedAs(ParseTag(name, map), "String")

ParseTagList(name, map) == TypedAs(ParseTag(name, map), "List")

(***************************************************************************)
(* The inputs of the path resolver: contexts, and path strings written     *)
(* from a sequence of segments, each a name with or without an index.      *)
(***************************************************************************)
NameA == <<"a">>

NameB == <<"b">>

NameL == <<"l">>

NameM == <<"m">>

NameX == <<"x">>

NameY == <<"y">>

StrS == VString(<<"s">>)

StrT == VString(<<"t">>)

\* {a: "s"}
MapA == <<Entry(NameA, StrS)>>

\* {a: "t", l: ["s", "t"]}
MapAL == <<Entry(NameA, StrT), Entry(NameL, VList(<<StrS, StrT>>))>>

\* {a: {a: "s"}, l: [{a: "s"}]}
MapDeep == <<Entry(NameA, VMap(MapA)), Entry(NameL, VList(<<VMap(MapA)>>))>>

\* the map of the entries es[i] whose value is not NoData
RECURSIVE Present(_)
Present(es) ==
    IF es = <<>> THEN <<>>
    ELSE IF es[1].v = NoData THEN Present(Tail(es))
    ELSE <<es[1]>> \o Present(Tail(es))

ResolveValsA ==
    {NoData, StrS, VList(<<>>), VList(<<StrS, StrT>>),
     VList(<<VMap(MapAL), StrS>>), VMap(MapA), VMap(MapAL), VMap(MapDeep)}

ResolveValsL ==
    {NoData, VList(<<StrS, StrT>>), VList(<<VMap(MapAL), StrS>>), VMap(MapDeep)}

ResolveContexts ==
    {Present(<<Entry(NameA, a), Entry(NameL, l)>>) :
        a \in ResolveValsA, l \in ResolveValsL}

Segments ==
    [name : {NameA, NameL}, hasIdx : {FALSE}, idx : {0}]
        \cup [name : {NameA, NameL}, hasIdx : {TRUE}, idx : (-1)..MaxIdx]

SegmentPaths == UNION {[1..n -> Segments] : n \in 1..MaxSegs}

RECURSIVE NatString(_)
NatString(n) ==
    IF n < 10 THEN <<DigitChars[n + 1]>>
    ELSE NatString(n \div 10) \o <<DigitChars[(n % 10) + 1]>>

IntString(n) == IF n < 0 THEN <<"-">> \o NatString(0 - n) ELSE NatString(n)

SegmentString(seg) ==
    IF seg.hasIdx THEN seg.name \o <<"[">> \o IntString(seg.idx) \o <<"]">>
    ELSE seg.name

RECURSIVE PathString(_)
PathString(segs) ==
    IF Len(segs) = 1 THEN SegmentString(segs[1])
    ELSE SegmentString(segs[1]) \o <<".">> \o PathString(Tail(segs))

\* path strings that are not written from segments
OddPaths ==
    {<<>>, <<"a", ".">>, <<".", "a">>, <<"l", "[">>, <<"l", "[", "]">>,
     <<"l", "]">>, <<"l", "[", "0">>, <<"l", "[", "a", "]">>,
     <<"l", "[", "0", "]", "a">>, <<"l", "[", "0", "]", "[", "1", "]">>,
     <<"l", "[", "-", "]">>, <<"l", "[", "1", "-", "]">>,
     <<"[", "0", "]">>, <<"l", "[", "0", "1", "]">>}

NoCall == [fn |-> "none", r |-> Thrown("none")]

NoInput == [text |-> <<>>, alias |-> <<>>, kv |-> <<>>, path |-> <<>>]

ResolveInputs ==
    {[text |-> PathString(p), alias |-> <<>>, kv |-> c, path |-> p] :
        p \in SegmentPaths, c \in ResolveContexts}
    \cup {[text |-> t, alias |-> <<>>, kv |-> c, path |-> <<>>] :
        t \in OddPaths, c \in ResolveContexts}

Idle ==
    /\ tree = <<>>
    /\ kv = <<>>
    /\ stack = <<>>
    /\ out = <<>>
    /\ status = "idle"
    /\ err = "none"

InitResolve ==
    /\ wsSentry \in BOOLEAN
    /\ in \in ResolveInputs
    /\ res = NoCall
    /\ Idle

CallParseTag ==
    /\ res.fn = "none"
    /\ res' = [fn |-> "parse_tag", r |-> ParseTag(in.text, in.kv)]
    /\ UNCHANGED <<wsSentry, tree, kv, stack, out, status, err, in>>

CallParseTagString ==
    /\ res.fn = "none"
    /\ res' = [fn |-> "parse_tag_string", r |-> ParseTagString(in.text, in.kv)]
    /\ UNCHANGED <<wsSentry, tree, kv, stack, out, status, err, in>>

CallParseTagList ==
    /\ res.fn = "none"
    /\ res' = [fn |-> "parse_tag_list", r |-> ParseTagList(in.text, in.kv)]
    /\ UNCHANGED <<wsSentry, tree, kv, stack, out, status, err, in>>

NextResolve == CallParseTag \/ CallParseTagString \/ CallParseTagList

SpecResolve == InitResolve /\ [][NextResolve]_vars

(***************************************************************************)
(* Nodes and their constructors                                            *)
(***************************************************************************)
Node(type, name, alias, text, nodes) ==
    [type |-> type, name |-> name, alias |-> alias, text |-> text,
     nodes |-> nodes]

NoNode == Node("Invalid", <<>>, <<>>, <<>>, <<>>)

TextNode(text) == Node("Text", <<>>, <<>>, text, <<>>)

ValueNode(name) == Node("Value", name, <<>>, <<>>, <<>>)

IfNode(name, nodes) == Node("IfValue", name, <<>>, <<>>, nodes)

ElifNode(name, nodes) == Node("ElifValue", name, <<>>, <<>>, nodes)

ElseNode(nodes) == Node("ElseValue", <<>>, <<>>, <<>>, nodes)

ForNode(name, alias, nodes) == Node("ForValue", name, alias, <<>>, nodes)

GenericNameChars == LowerChars \cup UpperChars \cup DigitSet \cup {"_", "-"}

SpecialNameChars == GenericNameChars \cup {"[", "]", "."}

\* std::all_of over the characters of name: true of the empty string
IsValidName(name) == \A i \in 1..Len(name) : name[i] \in GenericNameChars

IsValidNameExpression(name) ==
    LET hasMultiDot == HasMultiDot(name)
        isValidSpecial == \A i \in 1..Len(name) : name[i] \in SpecialNameChars
    IN  isValidSpecial /\ ~hasMultiDot

Built(node) == [err |-> "none", val |-> node]

Failed(e) == [err |-> e, val |-> NoNode]

NewValue(name) ==
    IF ~IsValidNameExpression(name) THEN Failed("InvalidTag")
    ELSE Built(ValueNode(name))

NewIfValue(name) ==
    IF ~IsValidNameExpression(name) THEN Failed("InvalidTag")
    ELSE Built(IfNode(name, <<>>))

NewElifValue(name) ==
    LET base == NewIfValue(name)
    IN  IF base.err # "none" THEN base ELSE Built(ElifNode(name, <<>>))

NewForValue(name, alias) ==
    IF ~IsValidNameExpression(name) THEN Failed("InvalidTag")
    ELSE IF ~IsValidName(alias) THEN Failed("InvalidTag")
    ELSE Built(ForNode(name, alias, <<>>))

(***************************************************************************)
(* The tag parsers                                                         *)
(***************************************************************************)
\* after in.erase(0, 2): in.erase(in.find(c)), which throws
\* std::out_of_range when find returns npos (npos > in.size())
EraseFromFirst(s, c) ==
    LET p == Find(s, c)
    IN  IF p = 0 THEN [err |-> "out_of_range", s |-> s]
        ELSE [err |-> "none", s |-> SubSeq(s, 1, p - 1)]

ParseValueTag(s) ==
    IF ~StartsWith(s, <<"{", "$">>) \/ ~EndsWith(s, <<"}">>)
    THEN Failed("InvalidTag")
    ELSE LET e == EraseFromFirst(From(s, 3), "}")
         IN  IF e.err # "none" THEN Failed(e.err)
             ELSE NewValue(Trim(e.s))

ParseIfValueTag(s) ==
    IF ~StartsWith(s, <<"{", "%">>) \/ ~EndsWith(s, <<"%", "}">>)
    THEN Failed("InvalidTag")
    ELSE LET e == EraseFromFirst(From(s, 3), "%")
         IN  IF e.err # "none" THEN Failed(e.err)
             ELSE LET t == Trim(e.s)
                  IN  IF ~StartsWith(t, <<"i", "f", " ">>)
                      THEN Failed("InvalidTag")
                      ELSE NewIfValue(LTrim(From(t, Find(t, " ") + 1)))

ParseElifValueTag(s) ==
    IF ~StartsWith(s, <<"{", "%">>) \/ ~EndsWith(s, <<"%", "}">>)
    THEN Failed("InvalidTag")
    ELSE LET e == EraseFromFirst(From(s, 3), "%")
         IN  IF e.err # "none" THEN Failed(e.err)
             ELSE LET t == Trim(e.s)
                  IN  IF ~StartsWith(t, <<"e", "l", "i", "f", " ">>)
                      THEN Failed("InvalidTag")
                      ELSE NewElifValue(LTrim(From(t, Find(t, " ") + 1)))

ParseForValueTag(s) ==
    IF ~StartsWith(s, <<"{", "%">>) \/ ~EndsWith(s, <<"%", "}">>)
    THEN Failed("InvalidTag")
    ELSE LET e == EraseFromFirst(From(s, 3), "%")
         IN  IF e.err # "none" THEN Failed(e.err)
             ELSE LET tokens == Split(Trim(e.s), " ")
                  IN  IF Len(tokens) # 4
                      THEN Failed("ExpressionSyntaxError")
                      ELSE IF tokens[1] # <<"f", "o", "r">>
                              \/ tokens[3] # <<"a", "s">>
                      THEN Failed("ExpressionSyntaxError")
                      ELSE NewForValue(tokens[2], tokens[4])

(***************************************************************************)
(* The inputs of the constructors and of the tag parsers                   *)
(***************************************************************************)
Sp == <<" ">>

Pads == {<<>>, Sp}

TagNames ==
    {<<>>, NameA, <<"a", ".", "b">>, <<"a", ".", ".", "b">>, <<"a", "$">>,
     <<"l", "[", "0", "]">>, <<"A", "_", "-", "9">>}

AliasNames == {<<>>, NameX, <<"x", "$">>, <<"x", ".", "y">>, <<"X", "_", "-", "9">>}

TagInners ==
    Pads
    \cup {p \o n \o q : p \in Pads, n \in TagNames, q \in Pads}
    \cup {p \o k \o g \o n \o q :
            p \in Pads, k \in {<<"i", "f">>, <<"e", "l", "i", "f">>},
            g \in {<<>>, Sp, Sp \o Sp}, n \in TagNames, q \in Pads}
    \cup {p \o <<"f", "o", "r">> \o Sp \o n \o Sp \o k \o Sp \o a \o q :
            p \in Pads, n \in TagNames, k \in {<<"a", "s">>, <<"i", "n">>},
            a \in AliasNames, q \in Pads}
    \cup {<<"f", "o", "r">> \o Sp \o NameL \o Sp \o <<"a", "s">>,
          <<"f", "o", "r">> \o Sp \o NameL \o Sp \o <<"a", "s">> \o Sp \o NameX
              \o Sp \o NameY,
          <<"f", "o", "r">> \o Sp \o Sp \o NameL \o Sp \o <<"a", "s">> \o Sp
              \o NameX,
          <<"i", "f">> \o Sp \o NameA \o <<"%">> \o NameB}

TagStrings ==
    {o \o i \o c :
        o \in {<<"{", "%">>, <<"{", "$">>, <<>>}, i \in TagInners,
        c \in {<<"%", "}">>, <<"}">>, <<>>}}

TagInputs ==
    {[text |-> t, alias |-> a, kv |-> <<>>, path |-> <<>>] :
        t \in TagStrings \cup TagNames, a \in AliasNames}

InitTag ==
    /\ wsSentry \in BOOLEAN
    /\ in \in TagInputs
    /\ res = NoCall
    /\ Idle

Call(fn, r) ==
    /\ res.fn = "none"
    /\ res' = [fn |-> fn, r |-> r]
    /\ UNCHANGED <<wsSentry, tree, kv, stack, out, status, err, in>>

ConstructValue == Call("Value", NewValue(in.text))

ConstructIfValue == Call("IfValue", NewIfValue(in.text))

ConstructElifValue == Call("ElifValue", NewElifValue(in.text))

ConstructForValue == Call("ForValue", NewForValue(in.text, in.alias))

CallParseValueTag == Call("parse_value_tag", ParseValueTag(in.text))

CallParseIfValueTag == Call("parse_ifvalue_tag", ParseIfValueTag(in.text))

CallParseElifValueTag == Call("parse_elifvalue_tag", ParseElifValueTag(in.text))

CallParseForValueTag == Call("parse_forvalue_tag", ParseForValueTag(in.text))

NextTag ==
    \/ ConstructValue
    \/ ConstructIfValue
    \/ ConstructElifValue
    \/ ConstructForValue
    \/ CallParseValueTag
    \/ CallParseIfValueTag
    \/ CallParseElifValueTag
    \/ CallParseForValueTag

SpecTag == InitTag /\ [][NextTag]_vars

(***************************************************************************)
(* Evaluation.  stack holds one frame per active call of a container's     *)
(* evaluate (and one for the caller's call on the root), outermost first:  *)
(*   self       the node whose evaluate runs (NoNode for the caller)       *)
(*   mode       "call": the caller; "then", "else": the two loops of       *)
(*              IfValue::evaluate; "all": ElseValue::evaluate's loop;      *)
(*              "for": ForValue::evaluate's loops                          *)
(*   nodes, i   the children looped over and the position of the next one  *)
(*   ref        the DataMap the children are evaluated against: 0 for the  *)
(*              caller's kv, p for the newValues of frame p (kv is passed  *)
(*              down by reference, newValues is a local of the for frame)  *)
(*   outer      the DataMap the node itself was evaluated against          *)
(*   list, it   a for frame's evaluatedList and the count of items begun   *)
(*   newValues  a for frame's copy of the map                              *)
(***************************************************************************)
Frame(self, mode, nodes, i, ref, outer, list, newValues) ==
    [self |-> self, mode |-> mode, nodes |-> nodes, i |-> i, ref |-> ref,
     outer |-> outer, list |-> list, it |-> 0, newValues |-> newValues]

Top == stack[Len(stack)]

CtxIn(callerMap, frames, ref) ==
    IF ref = 0 THEN callerMap ELSE frames[ref].newValues

Ctx(ref) == CtxIn(kv, stack, ref)

CurCtx == Ctx(Top.ref)

HasNode == status = "running" /\ stack # <<>> /\ Top.i <= Len(Top.nodes)

CurNode == Top.nodes[Top.i]

IsBranch(n) == n.type \in {"ElifValue", "ElseValue"}

\* the loop of the top frame calls evaluate on a node of this type
Evaluating(type) ==
    /\ HasNode
    /\ CurNode.type = type
    /\ Top.mode = "then" => ~IsBranch(CurNode)
    /\ Top.mode = "else" => IsBranch(CurNode)

Advance(frames) == [frames EXCEPT ![Len(frames)].i = @ + 1]

\* Throw with the output rolled back
ThrowRollback(e) ==
    /\ status' = "failed"
    /\ err' = e
    /\ stack' = <<>>
    /\ out' = <<>>
    /\ UNCHANGED <<wsSentry, tree, kv, in, res>>

\* an exception leaves every active evaluate: what was written stays written
Throw(e) ==
    /\ status' = "failed"
    /\ err' = e
    /\ stack' = <<>>
    /\ UNCHANGED <<wsSentry, tree, kv, out, in, res>>

\* m.insert({k, v}): a key the map holds keeps its value
MapInsert(m, k, v) == IF MapCount(m, k) THEN m ELSE Append(m, Entry(k, v))

\* m[k] = v
MapPut(m, k, v) ==
    IF MapCount(m, k)
    THEN [i \in 1..Len(m) |-> IF m[i].k = k THEN Entry(k, v) ELSE m[i]]
    ELSE Append(m, Entry(k, v))

EvalText ==
    /\ Evaluating("Text")
    /\ out' = out \o CurNode.text
    /\ stack' = Advance(stack)
    /\ UNCHANGED <<wsSentry, tree, kv, status, err, in, res>>

\* a handler that drops every exception
ValueCatchesAll(e) == TRUE

\* the handlers of Value::evaluate: MissingTagError is dropped, the rest rethrown
ValueCatches(e) == e = "MissingTag"

\* os << r, r being what parse_tag_string returned or threw
ValueWritten(r) ==
    \/ /\ r.err = "none"
       /\ out' = out \o r.val.value
       /\ stack' = Advance(stack)
       /\ UNCHANGED <<wsSentry, tree, kv, status, err, in, res>>
    \/ /\ r.err # "none"
       /\ ValueCatches(r.err)
       /\ stack' = Advance(stack)
       /\ UNCHANGED <<wsSentry, tree, kv, out, status, err, in, res>>
    \/ /\ r.err # "none"
       /\ ~ValueCatches(r.err)
       /\ Throw(r.err)

EvalValue ==
    /\ Evaluating("Value")
    /\ ValueWritten(ParseTagString(CurNode.name, CurCtx))

\* IfValue::evaluate, which ElifValue inherits: the branch is chosen by
\* kv.count(_name)
EvalIf ==
    /\ Evaluating("IfValue") \/ Evaluating("ElifValue")
    /\ stack' = Append(Advance(stack),
                       Frame(CurNode,
                             IF MapCount(CurCtx, CurNode.name) THEN "then"
                             ELSE "else",
                             CurNode.nodes, 1, Top.ref, Top.ref, <<>>, <<>>))
    /\ UNCHANGED <<wsSentry, tree, kv, out, status, err, in, res>>

EvalElse ==
    /\ Evaluating("ElseValue")
    /\ stack' = Append(Advance(stack),
                       Frame(CurNode, "all", CurNode.nodes, 1, Top.ref, Top.ref,
                             <<>>, <<>>))
    /\ UNCHANGED <<wsSentry, tree, kv, out, status, err, in, res>>

\* no check of the alias
ForNeverCollides(map, alias) == FALSE

\* kv.count(_alias)
ForCollides(map, alias) == MapCount(map, alias)

\* ForValue::evaluate up to the loop, r being what parse_tag_list returned or
\* threw: then the alias is checked, then the map is copied
ForEntered(r) ==
    \/ /\ r.err # "none"
       /\ Throw(r.err)
    \/ /\ r.err = "none"
       /\ ForCollides(CurCtx, CurNode.alias)
       /\ Throw("InvalidTag")
    \/ /\ r.err = "none"
       /\ ~ForCollides(CurCtx, CurNode.alias)
       /\ stack' = Append(Advance(stack),
                          Frame(CurNode, "for", CurNode.nodes,
                                Len(CurNode.nodes) + 1, Len(stack) + 1, Top.ref,
                                r.val.list, CurCtx))
       /\ UNCHANGED <<wsSentry, tree, kv, out, status, err, in, res>>

EvalFor ==
    /\ Evaluating("ForValue")
    /\ ForEntered(ParseTagList(CurNode.name, CurCtx))

\* ForIter with newValues a reference to the map passed in, not a copy
ForIterShared ==
    /\ status = "running"
    /\ stack # <<>>
    /\ Top.mode = "for"
    /\ Top.i > Len(Top.nodes)
    /\ Top.it < Len(Top.list)
    /\ LET bound == MapPut(Top.newValues, Top.self.alias, Top.list[Top.it + 1])
           begun == [stack EXCEPT ![Len(stack)] =
                        [@ EXCEPT !.it = @ + 1, !.i = 1, !.newValues = bound]]
       IN  IF Top.outer = 0
           THEN kv' = bound /\ stack' = begun
           ELSE kv' = kv
                /\ stack' = [begun EXCEPT ![Top.outer].newValues = bound]
    /\ UNCHANGED <<wsSentry, tree, out, status, err, in, res>>

\* the head of the range-for, with an item left: newValues[_alias] = item,
\* and the body starts over
ForIter ==
    /\ status = "running"
    /\ stack # <<>>
    /\ Top.mode = "for"
    /\ Top.i > Len(Top.nodes)
    /\ Top.it < Len(Top.list)
    /\ stack' = [stack EXCEPT ![Len(stack)] =
                    [@ EXCEPT !.it = @ + 1,
                              !.i = 1,
                              !.newValues =
                                  MapPut(@, Top.self.alias, Top.list[Top.it + 1])]]
    /\ UNCHANGED <<wsSentry, tree, kv, out, status, err, in, res>>

\* the top frame's evaluate returns; the caller's call returning ends the run
Pop ==
    /\ stack' = SubSeq(stack, 1, Len(stack) - 1)
    /\ status' = IF Len(stack) = 1 THEN "done" ELSE status
    /\ UNCHANGED <<wsSentry, tree, kv, out, err, in, res>>

Return ==
    /\ status = "running"
    /\ stack # <<>>
    /\ Top.i > Len(Top.nodes)
    /\ Top.mode = "for" => Top.it = Len(Top.list)
    /\ Pop

\* the then-loop of IfValue::evaluate breaks at the first Elif or Else child
Break ==
    /\ HasNode
    /\ Top.mode = "then"
    /\ IsBranch(CurNode)
    /\ Pop

\* the else-loop of IfValue::evaluate passes over every other child
Skip ==
    /\ HasNode
    /\ Top.mode = "else"
    /\ ~IsBranch(CurNode)
    /\ stack' = Advance(stack)
    /\ UNCHANGED <<wsSentry, tree, kv, out, status, err, in, res>>

Next ==
    \/ EvalText
    \/ EvalValue
    \/ EvalIf
    \/ EvalElse
    \/ EvalFor
    \/ ForIter
    \/ Return
    \/ Break
    \/ Skip

(***************************************************************************)
(* The trees and contexts evaluate is called on                            *)
(***************************************************************************)
TextT == TextNode(<<"T">>)

TextX == TextNode(<<"X">>)

\* the body of the k-th Elif of a chain
ElifText(k) == TextNode(<<"E", DigitChars[k + 1]>>)

CondNames == {NameA, NameB}

ElifRuns ==
    UNION {{[k \in 1..n |-> ElifNode(names[k], <<ElifText(k)>>)] :
                names \in [1..n -> CondNames]} : n \in 0..MaxElifs}

IfChains ==
    {IfNode(n, body \o elifs \o last) :
        n \in CondNames, body \in {<<TextT>>, <<ValueNode(NameA)>>},
        elifs \in ElifRuns, last \in {<<>>, <<ElseNode(<<TextX>>)>>}}

ForSources ==
    {NameL, NameA, <<"m", ".", "l">>, <<"l", "[", "0", "]">>}

ForBodies(alias) ==
    {<<>>,
     <<ValueNode(alias)>>,
     <<TextT, ValueNode(alias \o <<".", "a">>)>>,
     <<IfNode(alias, <<TextT>>), ValueNode(NameA)>>,
     <<ForNode(alias, NameY, <<ValueNode(NameY)>>)>>,
     <<TextT, ForNode(NameL, alias, <<TextT>>)>>}

ForLoops ==
    UNION {{ForNode(src, alias, body) : src \in ForSources,
                body \in ForBodies(alias)} : alias \in {NameX, NameA}}

\* a loop with later siblings
ForSiblings ==
    {ElseNode(<<ForNode(NameL, NameX, body), after>>) :
        body \in {<<ValueNode(NameX)>>, <<ValueNode(<<"x", ".", "a">>)>>},
        after \in {ValueNode(NameX), IfNode(NameX, <<TextT, ElseNode(<<TextX>>)>>),
                   ForNode(NameL, NameX, <<TextT>>)}}

ValuePaths ==
    {NameA, NameM, <<"m", ".", "a">>, <<"m", ".", "l">>, <<"l", "[", "0", "]">>,
     <<"l", "[", "2", "]">>, <<"l", "[", "-", "1", "]">>,
     <<"m", ".", "l", "[", "1", "]">>, <<"l", "[", "0", "]", ".", "a">>,
     <<"m", "[", "0", "]", ".", "a">>}

Trees ==
    {TextT} \cup {ValueNode(p) : p \in ValuePaths} \cup IfChains \cup ForLoops
        \cup ForSiblings

StrLists == UNION {[1..n -> {StrS, StrT}] : n \in 0..MaxListLen}

EvalValsL ==
    {NoData} \cup {VList(l) : l \in StrLists}
        \cup {VList(<<VMap(MapAL), StrS>>),
              VList(<<StrS, VList(<<>>), StrT>>),
              VList(<<VList(<<StrS, StrT>>), VList(<<>>), VList(<<StrT>>)>>)}

EvalContexts ==
    {Present(<<Entry(NameA, a), Entry(NameB, b), Entry(NameL, l),
               Entry(NameM, m), Entry(NameX, x)>>) :
        a \in {NoData, StrS, VList(<<StrT>>)}, b \in {NoData, StrT},
        l \in EvalValsL, m \in {NoData, VMap(MapAL)}, x \in {NoData, StrS}}

Init ==
    /\ wsSentry \in BOOLEAN
    /\ tree \in Trees
    /\ kv \in EvalContexts
    /\ stack = <<Frame(NoNode, "call", <<tree>>, 1, 0, 0, <<>>, <<>>)>>
    /\ out = <<>>
    /\ status = "running"
    /\ err = "none"
    /\ in = NoInput
    /\ res = NoCall

Spec == Init /\ [][Next]_vars

(***************************************************************************)
(* What the claims speak of                                                *)
(***************************************************************************)
IsPrefix(a, b) == Len(a) <= Len(b) /\ SubSeq(b, 1, Len(a)) = a

\* the characters of the strings of a list, in order
RECURSIVE Flatten(_)
Flatten(list) ==
    IF list = <<>> THEN <<>> ELSE list[1].value \o Flatten(Tail(list))

\* the strings of a list that come before its first item that is no string
RECURSIVE LeadingStrings(_)
LeadingStrings(list) ==
    IF list = <<>> \/ list[1].type # "String" THEN <<>>
    ELSE <<list[1]>> \o LeadingStrings(Tail(list))

\* what a Text or Value node writes when it does not fail
LeafOut(n, map) ==
    IF n.type = "Text" THEN n.text
    ELSE IF ParseTagString(n.name, map).err = "none"
    THEN ParseTagString(n.name, map).val.value
    ELSE <<>>

RECURSIVE BodyOut(_, _)
BodyOut(nodes, map) ==
    IF nodes = <<>> THEN <<>>
    ELSE LeafOut(nodes[1], map) \o BodyOut(Tail(nodes), map)

IsLeaf(n) == n.type \in {"Text", "Value"}

\* the position of the first Elif or Else child, Len(nodes) + 1 if none
FirstBranch(nodes) ==
    CHOOSE b \in 1..(Len(nodes) + 1) :
        /\ b = Len(nodes) + 1 \/ IsBranch(nodes[b])
        /\ \A i \in 1..(b - 1) : ~IsBranch(nodes[i])

\* an If whose children are then-nodes, then Elifs, then at most one Else
WellFormedChain(t) ==
    /\ t.type = "IfValue"
    /\ \A i \in 1..Len(t.nodes) :
        /\ i < FirstBranch(t.nodes) => IsLeaf(t.nodes[i])
        /\ i >= FirstBranch(t.nodes) =>
            /\ IsBranch(t.nodes[i])
            /\ t.nodes[i].type = "ElseValue" => i = Len(t.nodes)
            /\ \A j \in 1..Len(t.nodes[i].nodes) : IsLeaf(t.nodes[i].nodes[j])

\* the one branch of a chain that the claim has rendered
ChainOut(t, map) ==
    LET b == FirstBranch(t.nodes)
        hits == {i \in b..Len(t.nodes) :
                    t.nodes[i].type = "ElifValue" /\ MapCount(map, t.nodes[i].name)}
        first == CHOOSE i \in hits : \A j \in hits : i <= j
    IN  IF MapCount(map, t.name) THEN BodyOut(SubSeq(t.nodes, 1, b - 1), map)
        ELSE IF hits # {} THEN BodyOut(t.nodes[first].nodes, map)
        ELSE IF t.nodes # <<>> /\ t.nodes[Len(t.nodes)].type = "ElseValue"
        THEN BodyOut(t.nodes[Len(t.nodes)].nodes, map)
        ELSE <<>>

\* Segment k of a path is looked up in the map that the segments before it
\* lead to: each names a map, or a list whose indexed item is a map.
RECURSIVE SegMap(_, _, _)
SegMap(path, k, root) ==
    IF k = 1 THEN VMap(root)
    ELSE LET prev == SegMap(path, k - 1, root)
             seg == path[k - 1]
             v == MapAt(prev.map, seg.name)
         IN  IF prev.type # "Mapper" \/ ~MapCount(prev.map, seg.name) THEN NoData
             ELSE IF v.type = "Mapper" THEN v
             ELSE IF /\ v.type = "List"
                     /\ seg.hasIdx
                     /\ seg.idx \in 0..(Len(v.list) - 1)
                     /\ v.list[seg.idx + 1].type = "Mapper"
             THEN v.list[seg.idx + 1]
             ELSE NoData

\* the name of segment k is absent from the map it is looked up in
NameAbsent(path, k, root) ==
    /\ SegMap(path, k, root).type = "Mapper"
    /\ ~MapCount(SegMap(path, k, root).map, path[k].name)

\* the value that segment k names
SegValue(path, k, root) ==
    IF /\ SegMap(path, k, root).type = "Mapper"
       /\ MapCount(SegMap(path, k, root).map, path[k].name)
    THEN MapAt(SegMap(path, k, root).map, path[k].name)
    ELSE NoData

\* segment k carries an index that is negative, or at least the length of
\* the list the segment names
BadIndex(path, k, root) ==
    /\ path[k].hasIdx
    /\ \/ path[k].idx < 0
       \/ /\ SegValue(path, k, root).type = "List"
          /\ path[k].idx >= Len(SegValue(path, k, root).list)

\* the path without the index of segment k
Unindexed(path, k) == [path EXCEPT ![k].hasIdx = FALSE, ![k].idx = 0]

PathGrammar(s) ==
    /\ s # <<>>
    /\ \A i \in 1..Len(s) : s[i] \in SpecialNameChars
    /\ ~HasMultiDot(s)

AliasGrammar(s) == s # <<>> /\ \A i \in 1..Len(s) : s[i] \in GenericNameChars

Resolved == res.fn \in {"parse_tag", "parse_tag_string", "parse_tag_list"}

Constructed == res.fn \in {"Value", "IfValue", "ElifValue", "ForValue"}

(***************************************************************************)
(* The claims                                                              *)
(***************************************************************************)

\* C1: an If whose children are then-nodes, Elifs and at most one trailing
\* Else renders exactly one branch: the then-nodes if the If's name is a key
\* of the context, else the first Elif whose name is a key, else the Else,
\* else nothing.
C1_ExactlyOneBranch ==
    (status = "done" /\ WellFormedChain(tree)) => out = ChainOut(tree, kv)

\* C2: a Value node whose path resolves to a String writes that string; on
\* MissingTag it writes nothing and completes; on a List or a Mapping it
\* fails with InvalidTag and writes nothing; a failure of the resolution
\* other than MissingTag propagates.
C2_Step ==
    Evaluating("Value") =>
        LET r == ParseTag(CurNode.name, CurCtx)
        IN  /\ (r.err = "none" /\ r.val.type = "String") =>
                (out' = out \o r.val.value /\ status' # "failed")
            /\ r.err = "MissingTag" => (out' = out /\ status' # "failed")
            /\ (r.err = "none" /\ r.val.type \in {"List", "Mapper"}) =>
                (status' = "failed" /\ err' = "InvalidTag" /\ out' = out)
            /\ r.err \notin {"none", "MissingTag"} =>
                (status' = "failed" /\ err' = r.err /\ out' = out)

C2_ValueWritesOrAbsorbs == [][C2_Step]_vars

C2_Witness ==
    /\ tree.type = "Value"
    /\ ParseTag(tree.name, kv).err = "none"
    /\ status = "done"
    /\ out = ParseTag(tree.name, kv).val.value
    /\ out # <<>>

\* C3: a For whose source resolves to a list of length N, its alias no key of
\* the context, runs its body exactly N times, in list order, each time
\* against the caller's context plus the one binding alias -> item.
C3_Frames ==
    \A p \in 1..Len(stack) :
        stack[p].mode = "for" =>
            LET f == stack[p]
                caller == Ctx(f.outer)
                alias == f.self.alias
            IN  /\ ParseTagList(f.self.name, caller).err = "none"
                /\ f.list = ParseTagList(f.self.name, caller).val.list
                /\ alias \notin MapKeys(caller)
                /\ f.it \in 0..Len(f.list)
                /\ f.it = 0 => f.i = Len(f.nodes) + 1
                /\ f.it >= 1 =>
                    /\ MapKeys(f.newValues) = MapKeys(caller) \cup {alias}
                    /\ \A k \in MapKeys(f.newValues) :
                        MapAt(f.newValues, k) =
                            IF k = alias THEN f.list[f.it] ELSE MapAt(caller, k)

C3_Step ==
    \A p \in 1..Len(stack) :
        stack[p].mode = "for" =>
            \/ status' = "failed"
            \/ /\ Len(stack') >= p
               /\ stack'[p].self = stack[p].self
               /\ stack'[p].list = stack[p].list
               /\ \/ stack'[p].it = stack[p].it
                  \/ /\ stack'[p].it = stack[p].it + 1
                     /\ p = Len(stack)
                     /\ stack[p].i = Len(stack[p].nodes) + 1
                     /\ stack'[p].i = 1
            \/ /\ Len(stack') = p - 1
               /\ stack[p].it = Len(stack[p].list)
               /\ stack[p].i = Len(stack[p].nodes) + 1

C3_Output ==
    (status = "done" /\ tree.type = "ForValue"
        /\ tree.nodes = <<ValueNode(tree.alias)>>) =>
            out = Flatten(ParseTagList(tree.name, kv).val.list)

C3_ForIteratesInOrder == []C3_Frames /\ [][C3_Step]_vars /\ []C3_Output

C3_Witness ==
    /\ stack # <<>>
    /\ Top.mode = "for"
    /\ Top.it = 2
    /\ Top.i = Len(Top.nodes) + 1
    /\ out = Flatten(SubSeq(Top.list, 1, 2))
    /\ out # <<>>

\* C4: resolving a path one of whose segments carries an index that is
\* negative, or at least the length of the list the segment names, never
\* returns a value: it fails, and always with InvalidTag.
C4_BadIndexIsInvalidTag ==
    (Resolved /\ \E k \in 1..Len(in.path) : BadIndex(in.path, k, in.kv)) =>
        res.r.err = "InvalidTag"

\* C4 as amended: such a path never returns a value; it fails with
\* InvalidTag, or with MissingTag when the name of a segment before the
\* one with the bad index is absent from the map it is looked up in.
C4_BadIndexFails ==
    Resolved =>
        \A k \in 1..Len(in.path) :
            BadIndex(in.path, k, in.kv) =>
                \/ res.r.err = "InvalidTag"
                \/ /\ res.r.err = "MissingTag"
                   /\ \E j \in 1..(k - 1) : NameAbsent(in.path, j, in.kv)

C4_Witness ==
    /\ ~wsSentry
    /\ res.fn = "parse_tag"
    /\ res.r.err = "InvalidTag"
    /\ Len(in.path) = 2
    /\ ~in.path[1].hasIdx
    /\ in.path[2].idx >= 0
    /\ BadIndex(in.path, 2, in.kv)

\* C5: evaluating a tree never changes the context the caller passed in, nor
\* the context of an enclosing scope: when a For returns or fails the map it
\* was evaluated against holds what it held, so the alias is no key of the
\* context the nodes after the loop see.
C5_Step ==
    /\ kv' = kv
    /\ \A p \in 1..Len(stack') :
        p < Len(stack) => stack'[p].newValues = stack[p].newValues
    /\ (stack # <<>> /\ Top.mode = "for" /\ stack' # <<>>
            /\ Len(stack') = Len(stack) - 1) =>
        /\ Top.self.alias \notin MapKeys(CtxIn(kv', stack', stack'[Len(stack')].ref))
        /\ CtxIn(kv', stack', stack'[Len(stack')].ref) = Ctx(Top.outer)

C5_ContextUnchanged == [][C5_Step]_vars

C5_Witness ==
    /\ HasNode
    /\ Top.i = 2
    /\ Top.nodes[1].type = "ForValue"
    /\ CurNode.type = "Value"
    /\ CurNode.name = Top.nodes[1].alias
    /\ out # <<>>
    /\ ~MapCount(CurCtx, CurNode.name)

\* C6: a For whose source resolves to a list and whose alias is a key of the
\* context fails with InvalidTag before any body node and writes nothing,
\* whatever the length of the list, so a For nested in a For of the same
\* alias fails on the outer loop's first iteration; when the source does not
\* resolve, the failure of the resolution is reported instead.
C6_Step ==
    Evaluating("ForValue") =>
        LET r == ParseTagList(CurNode.name, CurCtx)
        IN  /\ (r.err = "none" /\ CurNode.alias \in MapKeys(CurCtx)) =>
                (status' = "failed" /\ err' = "InvalidTag" /\ out' = out)
            /\ r.err # "none" =>
                (status' = "failed" /\ err' = r.err /\ out' = out)
            /\ \A p \in 1..Len(stack) :
                (stack[p].mode = "for" /\ stack[p].self.alias = CurNode.alias) =>
                    (status' = "failed" /\ stack[p].it = 1)

C6_NoShadowing ==
    \A p, q \in 1..Len(stack) :
        (p < q /\ stack[p].mode = "for" /\ stack[q].mode = "for") =>
            stack[p].self.alias # stack[q].self.alias

C6_AliasCollisionFails == [][C6_Step]_vars /\ []C6_NoShadowing

C6_Witness ==
    /\ tree.type = "ForValue"
    /\ ParseTagList(tree.name, kv).err = "none"
    /\ ParseTagList(tree.name, kv).val.list = <<>>
    /\ tree.alias \in MapKeys(kv)
    /\ status = "failed"
    /\ err = "InvalidTag"
    /\ out = <<>>

\* C7: constructing a Value, If, Elif or For node fails with InvalidTag when
\* its path is not a non-empty string over [A-Za-z0-9_-[].] without "..",
\* and a For node when its alias is not a non-empty string over
\* [A-Za-z0-9_-]: no constructed node holds an empty name.
C7_NamesAreValidated ==
    Constructed =>
        /\ ~PathGrammar(in.text) => res.r.err = "InvalidTag"
        /\ (res.fn = "ForValue" /\ ~AliasGrammar(in.alias)) =>
            res.r.err = "InvalidTag"
        /\ res.r.err = "none" => res.r.val.name # <<>>

\* C8: output is append-only and never rolled back: a failure leaves in the
\* sink exactly what was written before it and adds nothing, so a For whose
\* body fails in iteration k leaves the output of the iterations before it.
C8_Step == IsPrefix(out, out') /\ (status' = "failed" => out' = out)

C8_Partial ==
    (status = "failed" /\ tree.type = "ForValue"
        /\ tree.nodes = <<ValueNode(tree.alias)>>
        /\ ParseTagList(tree.name, kv).err = "none"
        /\ tree.alias \notin MapKeys(kv)) =>
            out = Flatten(LeadingStrings(ParseTagList(tree.name, kv).val.list))

C8_OutputAppendOnly == [][C8_Step]_vars /\ []C8_Partial

C8_Witness ==
    /\ status = "failed"
    /\ tree.type = "ForValue"
    /\ tree.nodes = <<ValueNode(tree.alias)>>
    /\ out # <<>>

\* C9: parse_ifvalue_tag, parse_elifvalue_tag and parse_forvalue_tag return
\* a node or fail with InvalidTag or ExpressionSyntaxError, whatever the
\* input: no other failure leaves them.
C9_OnlyTagErrors ==
    res.fn \in {"parse_ifvalue_tag", "parse_elifvalue_tag", "parse_forvalue_tag"} =>
        res.r.err \in {"none", "InvalidTag", "ExpressionSyntaxError"}

\* C10: at a segment before the last that carries an index i >= 0 and names
\* a Mapping, the index is ignored: the path resolves to the same value or
\* fails in the same way as the path without that index.
C10_IndexOnMappingIgnored ==
    res.fn = "parse_tag" =>
        \A k \in 1..(Len(in.path) - 1) :
            (/\ in.path[k].hasIdx
             /\ in.path[k].idx >= 0
             /\ SegValue(in.path, k, in.kv).type = "Mapper") =>
                res.r = ParseTag(PathString(Unindexed(in.path, k)), in.kv)

\* C10 in the builds whose std::ws constructs no sentry
C10_IgnoredWithoutSentry == ~wsSentry => C10_IndexOnMappingIgnored

====
